---- MODULE Spec2Model ----
(***************************************************************************)
(* A model of the scoped thread pool of src/src/lib.rs: the pool-wide and  *)
(* per-scope WaitGroups, the message queue, the worker loop with its two   *)
(* sentinels, and the callers of scoped/zoom, spawn, expand and shutdown.  *)
(***************************************************************************)
EXTENDS Integers, Sequences, FiniteSets, TLC

\* ------------------------------------------------------------------ bounds
\* Largest size passed to Pool::new.
MaxWorkers == 2
\* Calls made to the pool by its users after construction: expand, spawn,
\* shutdown, scoped, and the zoom, execute and recurse calls of schedulers.
MaxCalls == 3

\* ------------------------------------------------------------------ names
\* The pool-wide WaitGroup (Pool.wait); every other index is a scope's WaitGroup.
PoolWait == 0
\* WaitGroups that can be created besides the pool's own: at most one per
\* call (a scope opened by scoped or zoom, the forever scope of a spawn, the
\* zoom made inside an executed task).
MaxWG == MaxCalls
WaitGroups == 0..MaxWG

Quit == [quit |-> TRUE]
\* PoolMessage::Task(job, wait). scope, child and early are bookkeeping: the
\* WaitGroup of the scope that execute was called on, whether a recurse
\* closure made the call, and whether the message was pushed before the
\* first Quit (set by Push).
Task(job, wait, scope, child) ==
    [quit |-> FALSE, job |-> job, wait |-> wait, scope |-> scope, child |-> child,
     early |-> FALSE]

\* The closures the callers submit, by what they do when run:
\*   ok     returns
\*   panic  faults
\*   loop   never terminates
\*   rec    a recurse closure: executes an ok child on its scope, then returns
\*   recp   a recurse closure: executes a faulting child on its scope, then returns
\*   zoom   a recurse closure: scope.zoom(|s| s.execute(ok)), then returns
ScopedJobs == {"ok", "panic", "rec", "recp", "zoom"}
SpawnJobs == {"ok", "panic", "loop"}

VARIABLES
    queue,        \* Pool.queue: the messages, oldest first
    pending,      \* WaitGroupState.pending of every WaitGroup
    poisoned,     \* WaitGroupState.poisoned of every WaitGroup
    lockPoisoned, \* whether the std Mutex of a WaitGroup is poisoned
    nextWg,       \* the next WaitGroup index Arc::new(WaitGroup::new()) yields
    wpc,          \* per worker thread: where it is in run_thread
    wtask,        \* per worker thread: the Task message it holds
    winner,       \* per worker thread: the WaitGroup of the zoom its task opened
    wbefore,      \* per worker thread: it was registered before the last shutdown call
    frames,       \* the calling thread's open scopes, innermost last
    cpc,          \* the calling thread: idle, sched, push, join, done
    cjob,         \* the calling thread: the Task message execute is about to push
    unwinding,    \* the calling thread: whether the scheduler of the innermost scope faulted
    outcome,      \* what the Pool::scoped call gave its caller
    aborted,      \* the process aborted (a fault raised while unwinding)
    ended,        \* per WaitGroup: how the scoped/zoom call that owned it ended
    schedFaulted, \* the WaitGroups whose scheduler function faulted
    taskFaulted,  \* the WaitGroups one of whose tasks faulted
    ntasks,       \* execute/recurse calls made by schedulers so far
    nscopes,      \* scopes opened on the calling thread so far
    spc,          \* the main thread's spawn call: idle, or called (about to return)
    sjob,         \* the WaitGroup of the forever scope of the running spawn call
    spawnWgs,     \* the WaitGroups of the forever scopes made by spawn
    sdpc,         \* the thread calling shutdown: idle, join, done
    sdOutcome,    \* what the last finished shutdown call gave its caller
    nshutdown,    \* shutdown calls made so far
    sdLeftByFault,\* a worker registered before the last shutdown call ended by a fault
    added,        \* workers added by Pool::new and user calls of Pool::expand
    expandFaulted,\* a user call of Pool::expand faulted
    xpc,          \* the main thread's expand call: idle, or spawn (submitted, about to start the thread)
    ncalls,       \* calls made to the pool by its users so far
    quits,        \* workers that processed Quit (cancelled their ThreadSentinel)
    submits,      \* per WaitGroup: calls of WaitGroup::submit so far
    completes,    \* per WaitGroup: calls of WaitGroup::complete so far
    poisons       \* per WaitGroup: calls of WaitGroup::poison so far

vars == <<queue, pending, poisoned, lockPoisoned, nextWg, wpc, wtask, winner, wbefore,
          frames, cpc, cjob, unwinding, outcome, aborted, ended, schedFaulted,
          taskFaulted, ntasks, nscopes, spc, sjob, spawnWgs, sdpc,
          sdOutcome, nshutdown, sdLeftByFault, added, expandFaulted, xpc, ncalls, quits,
          submits, completes, poisons>>

wgVars == <<pending, poisoned, lockPoisoned, nextWg>>
workerVars == <<wpc, wtask, winner, wbefore>>
callerVars == <<frames, cpc, cjob, unwinding, outcome, ended, schedFaulted,
                ntasks, nscopes>>
spawnVars == <<spc, sjob, spawnWgs>>
shutdownVars == <<sdpc, sdOutcome, nshutdown, sdLeftByFault>>
expandVars == <<added, expandFaulted, xpc>>
opVars == <<submits, completes, poisons>>

NoTask == Task("none", PoolWait, PoolWait, FALSE)
Workers == 1..Len(wpc)
Top == frames[Len(frames)]
Front(s) == SubSeq(s, 1, Len(s) - 1)
\* A worker thread that ended is no longer among the pool's threads.
Without(s, w) == SubSeq(s, 1, w - 1) \o SubSeq(s, w + 1, Len(s))

\* self.pool.queue.push(PoolMessage::Task(..)) in Scope::execute: the message
\* goes to the back of the queue.
Push(q, task) == Append(q, [task EXCEPT !.early = (nshutdown = 0)])

\* ------------------------------------------------------------- WaitGroup
\* One more call counted for WaitGroup wg.
Count(c, wg) == [c EXCEPT ![wg] = @ + 1]

\* Mutant: submit leaves the count alone.
WgSubmitMissing(p, wg) == p

\* WaitGroup::submit: pending += 1.
WgSubmit(p, wg) == [p EXCEPT ![wg] = @ + 1]

\* WaitGroup::complete and the decrement of WaitGroup::poison: pending -= 1.
WgComplete(p, wg) == [p EXCEPT ![wg] = @ - 1]

\* WaitGroup::poison: poisoned = true.
WgPoison(q, wg) == [q EXCEPT ![wg] = TRUE]

\* Mutant: join does not wait at all.
JoinReadyNoWait(wg) == TRUE

\* Mutant: a poison releases the joiners at once.
JoinReadyOrPoisoned(wg) == pending[wg] = 0 \/ poisoned[wg]

\* Mutant: a join is only released by a worker thread of the pool.
JoinReadyNeedsWorker(wg) == pending[wg] = 0 /\ Len(wpc) > 0

\* Mutant: a join gives up when the pool has no thread left.
JoinReadyNoWorkers(wg) == pending[wg] = 0 \/ Len(wpc) = 0

\* WaitGroup::join leaves its wait loop: pending > 0 no longer holds.
JoinReady(wg) == pending[wg] = 0

\* Mutant: the poison flag is shared by all WaitGroups.
JoinFaultsAny(wg) == \E g \in WaitGroups : poisoned[g]

\* Mutant: join never raises.
JoinFaultsNever(wg) == FALSE

\* WaitGroup::join raises "WaitGroup explicitly poisoned!" after the loop.
JoinFaults(wg) == poisoned[wg]

\* self.state.lock().unwrap() faults when the Mutex is poisoned, which it is
\* once a thread faulted while holding the guard (join's explicit panic).
LockFaults(wg) == lockPoisoned[wg]

\* Pool::workers: self.wait.waiting() takes the lock, which faults when the
\* lock is poisoned, and returns pending.
WorkersFaults == LockFaults(PoolWait)
WorkersValue == pending[PoolWait]

\* Mutant: the clone takes the pool's WaitGroup instead of the scope's.
ScopeClonePoolWait(wg) == PoolWait

\* Scope::clone, used by recurse: the new scope shares the WaitGroup.
ScopeClone(wg) == wg

\* The child a recurse closure executes on the scope it is given.
ChildJob(job) == IF job = "recp" THEN "panic" ELSE "ok"

\* ------------------------------------------------------------------ Init
\* Pool::new(n): an empty pool expanded n times; nothing else has run yet.
Init ==
    /\ queue = <<>>
    /\ \E n \in 0..MaxWorkers :
          /\ pending = [wg \in WaitGroups |-> IF wg = PoolWait THEN n ELSE 0]
          /\ wpc = [w \in 1..n |-> "idle"]
          /\ wtask = [w \in 1..n |-> NoTask]
          /\ winner = [w \in 1..n |-> PoolWait]
          /\ wbefore = [w \in 1..n |-> FALSE]
          /\ added = n
          /\ submits = [wg \in WaitGroups |-> IF wg = PoolWait THEN n ELSE 0]
    /\ completes = [wg \in WaitGroups |-> 0]
    /\ poisons = [wg \in WaitGroups |-> 0]
    /\ poisoned = [wg \in WaitGroups |-> FALSE]
    /\ lockPoisoned = [wg \in WaitGroups |-> FALSE]
    /\ nextWg = 1
    /\ frames = <<>>
    /\ cpc = "idle"
    /\ cjob = NoTask
    /\ unwinding = FALSE
    /\ outcome = "none"
    /\ aborted = FALSE
    /\ ended = [wg \in WaitGroups |-> "none"]
    /\ schedFaulted = {}
    /\ taskFaulted = {}
    /\ ntasks = 0
    /\ nscopes = 0
    /\ spc = "idle"
    /\ sjob = PoolWait
    /\ spawnWgs = {}
    /\ sdpc = "idle"
    /\ sdOutcome = "none"
    /\ nshutdown = 0
    /\ sdLeftByFault = FALSE
    /\ expandFaulted = FALSE
    /\ xpc = "idle"
    /\ quits = 0
    /\ ncalls = 0

\* ---------------------------------------------------------------- Pool
\* Mutant: expand starts the thread without submitting.
PoolSubmitMissing(p) == p

\* Pool::expand: pool.wait.submit().
PoolSubmit(p) == WgSubmit(p, PoolWait)

\* Pool::expand, second statement: thread::spawn of run_thread, whose
\* ThreadSentinel is armed. base is wpc with the caller's own position
\* already updated.
StartWorker(base) ==
    /\ wpc' = Append(base, "idle")
    /\ wtask' = Append(wtask, NoTask)
    /\ winner' = Append(winner, PoolWait)
    /\ wbefore' = Append(wbefore, FALSE)

\* Pool::expand called by a user of the pool, first statement:
\* pool.wait.submit(), which faults when the lock is poisoned.
Expand ==
    /\ ~aborted
    /\ spc = "idle"
    /\ xpc = "idle"
    /\ cpc \in {"idle", "done"}
    /\ ncalls < MaxCalls
    /\ ncalls' = ncalls + 1
    /\ IF LockFaults(PoolWait)
         THEN /\ expandFaulted' = TRUE
              /\ UNCHANGED <<pending, added, xpc>>
              /\ UNCHANGED opVars
         ELSE /\ pending' = PoolSubmit(pending)
              /\ submits' = Count(submits, PoolWait)
              /\ added' = added + 1
              /\ xpc' = "spawn"
              /\ UNCHANGED <<expandFaulted, completes, poisons>>
    /\ UNCHANGED <<queue, poisoned, lockPoisoned, nextWg, aborted, taskFaulted, quits>>
    /\ UNCHANGED <<workerVars, callerVars, spawnVars, shutdownVars>>

\* Pool::expand called by a user of the pool, second statement: the thread
\* starts and expand returns.
ExpandSpawn ==
    /\ ~aborted
    /\ xpc = "spawn"
    /\ StartWorker(wpc)
    /\ xpc' = "idle"
    /\ UNCHANGED <<queue, wgVars, aborted, taskFaulted, quits, ncalls>>
    /\ UNCHANGED <<added, expandFaulted, opVars>>
    /\ UNCHANGED <<callerVars, spawnVars, shutdownVars>>

\* Mutant: spawn joins its forever scope, as scoped does.
SpawnJoins(wg) == TRUE

\* Whether Pool::spawn waits for its job before it returns: it calls execute
\* on a forever scope and never joins it.
SpawnWaits(wg) == FALSE

\* Pool::spawn: Scope::forever makes a fresh WaitGroup and execute submits on
\* it. The main thread calls it outside its scoped call.
SpawnExecute(job) ==
    /\ ~aborted
    /\ spc = "idle"
    /\ xpc = "idle"
    /\ cpc \in {"idle", "done"}
    /\ ncalls < MaxCalls
    /\ ncalls' = ncalls + 1
    /\ pending' = WgSubmit(pending, nextWg)
    /\ submits' = Count(submits, nextWg)
    /\ nextWg' = nextWg + 1
    /\ cjob' = Task(job, nextWg, nextWg, FALSE)
    /\ sjob' = nextWg
    /\ spawnWgs' = spawnWgs \cup {nextWg}
    /\ spc' = "push"
    /\ UNCHANGED <<queue, poisoned, lockPoisoned, aborted, taskFaulted, quits>>
    /\ UNCHANGED <<frames, cpc, unwinding, outcome, ended, schedFaulted, ntasks, nscopes>>
    /\ UNCHANGED <<workerVars, shutdownVars, expandVars, completes, poisons>>

\* Pool::spawn: execute pushes the Task message.
SpawnPush ==
    /\ ~aborted
    /\ spc = "push"
    /\ queue' = Push(queue, cjob)
    /\ cjob' = NoTask
    /\ spc' = "called"
    /\ UNCHANGED <<wgVars, aborted, taskFaulted, quits, sjob, spawnWgs, ncalls>>
    /\ UNCHANGED <<frames, cpc, unwinding, outcome, ended, schedFaulted, ntasks, nscopes>>
    /\ UNCHANGED <<workerVars, shutdownVars, expandVars, opVars>>

\* Pool::spawn returns to its caller.
SpawnReturn ==
    /\ ~aborted
    /\ spc = "called"
    /\ SpawnWaits(sjob) => JoinReady(sjob)
    /\ sjob' = PoolWait
    /\ spc' = "idle"
    /\ UNCHANGED <<queue, wgVars, aborted, taskFaulted, quits, spawnWgs>>
    /\ UNCHANGED <<workerVars, callerVars, shutdownVars, expandVars>>
    /\ UNCHANGED ncalls
    /\ UNCHANGED opVars

\* Mutant: shutdown puts Quit at the front of the queue.
ShutdownPushFront ==
    /\ ~aborted
    /\ sdpc \in {"idle", "done"}
    /\ ncalls < MaxCalls
    /\ ncalls' = ncalls + 1
    /\ queue' = <<Quit>> \o queue
    /\ sdpc' = "join"
    /\ wbefore' = [w \in Workers |-> TRUE]
    /\ nshutdown' = nshutdown + 1
    /\ sdLeftByFault' = FALSE
    /\ UNCHANGED sdOutcome
    /\ UNCHANGED <<wgVars, aborted, taskFaulted, quits>>
    /\ UNCHANGED <<wpc, wtask, winner, callerVars, spawnVars, expandVars>>
    /\ UNCHANGED opVars

\* Pool::shutdown, first half: push Quit.
ShutdownPush ==
    /\ ~aborted
    /\ sdpc \in {"idle", "done"}
    /\ ncalls < MaxCalls
    /\ ncalls' = ncalls + 1
    /\ queue' = Append(queue, Quit)
    /\ sdpc' = "join"
    /\ wbefore' = [w \in Workers |-> TRUE]
    /\ nshutdown' = nshutdown + 1
    /\ sdLeftByFault' = FALSE
    /\ UNCHANGED sdOutcome
    /\ UNCHANGED <<wgVars, aborted, taskFaulted, quits>>
    /\ UNCHANGED <<wpc, wtask, winner, callerVars, spawnVars, expandVars>>
    /\ UNCHANGED opVars

\* Pool::shutdown, second half: self.wait.join() finishes.
ShutdownJoin ==
    /\ ~aborted
    /\ sdpc = "join"
    /\ LockFaults(PoolWait) \/ JoinReady(PoolWait)
    /\ sdpc' = "done"
    /\ sdOutcome' = IF LockFaults(PoolWait) \/ JoinFaults(PoolWait)
                       THEN "fault" ELSE "return"
    /\ lockPoisoned' = IF JoinFaults(PoolWait)
                          THEN [lockPoisoned EXCEPT ![PoolWait] = TRUE]
                          ELSE lockPoisoned
    /\ UNCHANGED <<queue, pending, poisoned, nextWg, aborted, taskFaulted, quits>>
    /\ UNCHANGED <<nshutdown, sdLeftByFault>>
    /\ UNCHANGED <<workerVars, callerVars, spawnVars, expandVars>>
    /\ UNCHANGED ncalls
    /\ UNCHANGED opVars

\* ------------------------------------------------------------ run_thread
\* self.queue.pop() returns a message (it blocks while the queue is empty).
WorkerPop(w) ==
    /\ ~aborted
    /\ wpc[w] = "idle"
    /\ queue # <<>>
    /\ queue' = Tail(queue)
    /\ IF Head(queue).quit
         THEN /\ wpc' = [wpc EXCEPT ![w] = "quit"]
              /\ UNCHANGED wtask
         ELSE /\ wpc' = [wpc EXCEPT ![w] = "run"]
              /\ wtask' = [wtask EXCEPT ![w] = Head(queue)]
    /\ UNCHANGED <<wgVars, winner, wbefore, aborted, taskFaulted, quits>>
    /\ UNCHANGED <<callerVars, spawnVars, shutdownVars, expandVars>>
    /\ UNCHANGED ncalls
    /\ UNCHANGED opVars

\* Mutant: the worker that pops Quit keeps it.
RepushDropped(q) == q

\* Mutant: the worker that pops Quit pushes it twice.
RepushTwice(q) == Append(Append(q, Quit), Quit)

\* Quit arm: the queue after self.queue.push(PoolMessage::Quit).
Repush(q) == Append(q, Quit)

\* Quit arm: self.queue.push(PoolMessage::Quit).
WorkerRepush(w) ==
    /\ ~aborted
    /\ wpc[w] = "quit"
    /\ queue' = Repush(queue)
    /\ wpc' = [wpc EXCEPT ![w] = "cancel"]
    /\ UNCHANGED <<wgVars, wtask, winner, wbefore, aborted, taskFaulted, quits>>
    /\ UNCHANGED <<callerVars, spawnVars, shutdownVars, expandVars>>
    /\ UNCHANGED ncalls
    /\ UNCHANGED opVars

\* Quit arm: thread_sentinel.cancel() completes the pool-wide WaitGroup, then
\* break ends the thread.
WorkerExit(w) ==
    /\ ~aborted
    /\ wpc[w] = "cancel"
    /\ pending' = WgComplete(pending, PoolWait)
    /\ wpc' = Without(wpc, w)
    /\ wtask' = Without(wtask, w)
    /\ winner' = Without(winner, w)
    /\ wbefore' = Without(wbefore, w)
    /\ quits' = quits + 1
    /\ UNCHANGED <<queue, poisoned, lockPoisoned, nextWg, aborted, taskFaulted>>
    /\ UNCHANGED <<callerVars, spawnVars, shutdownVars, expandVars>>
    /\ UNCHANGED ncalls
    /\ completes' = Count(completes, PoolWait)
    /\ UNCHANGED <<submits, poisons>>

\* Task arm: job.run() returns and sentinel.cancel() completes the task's
\* WaitGroup.
TaskReturn(w) ==
    /\ ~aborted
    /\ wpc[w] = "run"
    /\ wtask[w].job = "ok"
    /\ pending' = WgComplete(pending, wtask[w].wait)
    /\ wpc' = [wpc EXCEPT ![w] = "idle"]
    /\ wtask' = [wtask EXCEPT ![w] = NoTask]
    /\ UNCHANGED <<queue, poisoned, lockPoisoned, nextWg, winner, wbefore, aborted, taskFaulted, quits>>
    /\ UNCHANGED <<callerVars, spawnVars, shutdownVars, expandVars>>
    /\ UNCHANGED ncalls
    /\ completes' = Count(completes, wtask[w].wait)
    /\ UNCHANGED <<submits, poisons>>

\* Mutant: the dropped Sentinel poisons, and the cancel completes as well.
TaskFaultBoth(w) ==
    /\ ~aborted
    /\ wpc[w] = "run"
    /\ wtask[w].job = "panic"
    /\ poisoned' = WgPoison(poisoned, wtask[w].wait)
    /\ pending' = WgComplete(WgComplete(pending, wtask[w].wait), wtask[w].wait)
    /\ poisons' = Count(poisons, wtask[w].wait)
    /\ completes' = Count(completes, wtask[w].wait)
    /\ taskFaulted' = taskFaulted \cup {wtask[w].wait}
    /\ wpc' = [wpc EXCEPT ![w] = "restart"]
    /\ wtask' = [wtask EXCEPT ![w] = NoTask]
    /\ UNCHANGED <<queue, lockPoisoned, nextWg, winner, wbefore, aborted, quits, submits>>
    /\ UNCHANGED <<callerVars, spawnVars, shutdownVars, expandVars>>
    /\ UNCHANGED ncalls

\* Task arm: job.run() faults; unwinding drops the task's Sentinel, which
\* poisons the task's WaitGroup. The ThreadSentinel is dropped next.
TaskFault(w) ==
    /\ ~aborted
    /\ wpc[w] = "run"
    /\ wtask[w].job = "panic"
    /\ poisoned' = WgPoison(poisoned, wtask[w].wait)
    /\ pending' = WgComplete(pending, wtask[w].wait)
    /\ taskFaulted' = taskFaulted \cup {wtask[w].wait}
    /\ wpc' = [wpc EXCEPT ![w] = "restart"]
    /\ wtask' = [wtask EXCEPT ![w] = NoTask]
    /\ UNCHANGED <<queue, lockPoisoned, nextWg, winner, wbefore, aborted, quits>>
    /\ UNCHANGED <<callerVars, spawnVars, shutdownVars, expandVars>>
    /\ UNCHANGED ncalls
    /\ poisons' = Count(poisons, wtask[w].wait)
    /\ UNCHANGED <<submits, completes>>

\* Mutant: ThreadSentinel::drop poisons the pool-wide WaitGroup first; the
\* restart has not happened yet.
ThreadPoisonFirst(w) ==
    /\ ~aborted
    /\ wpc[w] = "restart"
    /\ poisoned' = WgPoison(poisoned, PoolWait)
    /\ pending' = WgComplete(pending, PoolWait)
    /\ wpc' = [wpc EXCEPT ![w] = "poison"]
    /\ UNCHANGED <<queue, lockPoisoned, nextWg, aborted, taskFaulted, quits>>
    /\ UNCHANGED <<wtask, winner, wbefore>>
    /\ UNCHANGED <<callerVars, spawnVars, shutdownVars, expandVars>>
    /\ UNCHANGED ncalls
    /\ poisons' = Count(poisons, PoolWait)
    /\ UNCHANGED <<submits, completes>>

\* ThreadSentinel::drop, first half: pool.expand() restarts the thread; its
\* first statement is pool.wait.submit().
ThreadRestart(w) ==
    /\ ~aborted
    /\ wpc[w] = "restart"
    /\ pending' = PoolSubmit(pending)
    /\ submits' = Count(submits, PoolWait)
    /\ wpc' = [wpc EXCEPT ![w] = "spawn"]
    /\ UNCHANGED <<queue, poisoned, lockPoisoned, nextWg, aborted, taskFaulted, quits>>
    /\ UNCHANGED <<wtask, winner, wbefore, completes, poisons>>
    /\ UNCHANGED <<callerVars, spawnVars, shutdownVars, expandVars>>
    /\ UNCHANGED ncalls

\* ThreadSentinel::drop, first half, second statement of pool.expand(): the
\* replacement thread starts.
ThreadSpawn(w) ==
    /\ ~aborted
    /\ wpc[w] = "spawn"
    /\ StartWorker([wpc EXCEPT ![w] = "poison"])
    /\ UNCHANGED <<queue, wgVars, aborted, taskFaulted, quits, opVars>>
    /\ UNCHANGED <<callerVars, spawnVars, shutdownVars, expandVars>>
    /\ UNCHANGED ncalls

\* ThreadSentinel::drop, second half: pool.wait.poison(); the thread is gone.
ThreadPoison(w) ==
    /\ ~aborted
    /\ wpc[w] = "poison"
    /\ poisoned' = WgPoison(poisoned, PoolWait)
    /\ pending' = WgComplete(pending, PoolWait)
    /\ wpc' = Without(wpc, w)
    /\ wtask' = Without(wtask, w)
    /\ winner' = Without(winner, w)
    /\ wbefore' = Without(wbefore, w)
    /\ UNCHANGED <<queue, lockPoisoned, nextWg, aborted, taskFaulted, quits>>
    /\ sdLeftByFault' = (sdLeftByFault \/ wbefore[w])
    /\ UNCHANGED <<sdpc, sdOutcome, nshutdown>>
    /\ UNCHANGED <<callerVars, spawnVars, expandVars>>
    /\ UNCHANGED ncalls
    /\ poisons' = Count(poisons, PoolWait)
    /\ UNCHANGED <<submits, completes>>

\* A recurse closure calls execute on its scope: self.wait.submit().
TaskExecute(w) ==
    /\ ~aborted
    /\ wpc[w] = "run"
    /\ wtask[w].job \in {"rec", "recp"}
    /\ pending' = WgSubmit(pending, ScopeClone(wtask[w].wait))
    /\ submits' = Count(submits, ScopeClone(wtask[w].wait))
    /\ wpc' = [wpc EXCEPT ![w] = "push"]
    /\ UNCHANGED <<queue, poisoned, lockPoisoned, nextWg, wtask, winner, wbefore, aborted, taskFaulted, quits>>
    /\ UNCHANGED <<callerVars, spawnVars, shutdownVars, expandVars>>
    /\ UNCHANGED <<ncalls, completes, poisons>>

\* The execute of a recurse closure pushes the Task message; what is left of
\* the closure returns.
TaskExecPush(w) ==
    /\ ~aborted
    /\ wpc[w] = "push"
    /\ queue' = Push(queue, Task(ChildJob(wtask[w].job), ScopeClone(wtask[w].wait), wtask[w].wait, TRUE))
    /\ wtask' = [wtask EXCEPT ![w].job = "ok"]
    /\ wpc' = [wpc EXCEPT ![w] = "run"]
    /\ UNCHANGED <<wgVars, winner, wbefore, aborted, taskFaulted, quits>>
    /\ UNCHANGED <<callerVars, spawnVars, shutdownVars, expandVars>>
    /\ UNCHANGED <<ncalls, opVars>>

\* Mutant: the zoom made inside a task runs the inner job on the worker's own
\* thread instead of pushing it.
TaskZoomInline(w) ==
    /\ ~aborted
    /\ wpc[w] = "run"
    /\ wtask[w].job = "zoom"
    /\ nextWg' = nextWg + 1
    /\ winner' = [winner EXCEPT ![w] = nextWg]
    /\ wpc' = [wpc EXCEPT ![w] = "zjoin"]
    /\ UNCHANGED <<queue, pending, poisoned, lockPoisoned, wtask, wbefore, aborted, taskFaulted, quits>>
    /\ UNCHANGED <<callerVars, spawnVars, shutdownVars, expandVars, opVars>>
    /\ UNCHANGED ncalls

\* A recurse closure calls zoom: refine makes a fresh WaitGroup and the
\* scheduler's execute submits on it.
TaskZoom(w) ==
    /\ ~aborted
    /\ wpc[w] = "run"
    /\ wtask[w].job = "zoom"
    /\ pending' = WgSubmit(pending, nextWg)
    /\ submits' = Count(submits, nextWg)
    /\ nextWg' = nextWg + 1
    /\ winner' = [winner EXCEPT ![w] = nextWg]
    /\ wpc' = [wpc EXCEPT ![w] = "zpush"]
    /\ UNCHANGED <<queue, poisoned, lockPoisoned, wtask, wbefore, aborted, taskFaulted, quits>>
    /\ UNCHANGED <<callerVars, spawnVars, shutdownVars, expandVars>>
    /\ UNCHANGED <<ncalls, completes, poisons>>

\* The execute made in the zoom of a task pushes its Task message, and the
\* scheduler returns: the deferred scope.join() runs next.
TaskZoomPush(w) ==
    /\ ~aborted
    /\ wpc[w] = "zpush"
    /\ queue' = Push(queue, Task("ok", winner[w], winner[w], FALSE))
    /\ wpc' = [wpc EXCEPT ![w] = "zjoin"]
    /\ UNCHANGED <<wgVars, wtask, winner, wbefore, aborted, taskFaulted, quits>>
    /\ UNCHANGED <<callerVars, spawnVars, shutdownVars, expandVars>>
    /\ UNCHANGED <<ncalls, opVars>>

\* The zoom made inside a task finishes its join: the closure goes on (and
\* returns) when the inner scope is clean and faults when it is poisoned.
TaskZoomJoin(w) ==
    /\ ~aborted
    /\ wpc[w] = "zjoin"
    /\ JoinReady(winner[w])
    /\ ended' = [ended EXCEPT ![winner[w]] =
                     IF JoinFaults(winner[w]) THEN "fault" ELSE "return"]
    /\ lockPoisoned' = IF JoinFaults(winner[w])
                          THEN [lockPoisoned EXCEPT ![winner[w]] = TRUE]
                          ELSE lockPoisoned
    /\ wtask' = [wtask EXCEPT ![w].job =
                     IF JoinFaults(winner[w]) THEN "panic" ELSE "ok"]
    /\ wpc' = [wpc EXCEPT ![w] = "run"]
    /\ winner' = [winner EXCEPT ![w] = PoolWait]
    /\ UNCHANGED <<queue, pending, poisoned, nextWg, wbefore, aborted, taskFaulted, quits>>
    /\ UNCHANGED <<frames, cpc, cjob, unwinding, outcome, schedFaulted, ntasks, nscopes>>
    /\ UNCHANGED <<spawnVars, shutdownVars, expandVars>>
    /\ UNCHANGED ncalls
    /\ UNCHANGED opVars

\* ------------------------------------------------------- scoped and zoom
\* Pool::scoped: Scope::forever(pool).zoom(scheduler); refine makes the
\* scope's WaitGroup and the scheduler starts.
ScopedCall ==
    /\ ~aborted
    /\ cpc = "idle"
    /\ spc = "idle"
    /\ xpc = "idle"
    /\ ncalls < MaxCalls
    /\ ncalls' = ncalls + 1
    /\ frames' = <<nextWg>>
    /\ nextWg' = nextWg + 1
    /\ nscopes' = nscopes + 1
    /\ cpc' = "sched"
    /\ UNCHANGED <<queue, pending, poisoned, lockPoisoned, aborted, taskFaulted, quits>>
    /\ UNCHANGED <<cjob, unwinding, outcome, ended, schedFaulted, ntasks>>
    /\ UNCHANGED <<workerVars, spawnVars, shutdownVars, expandVars>>
    /\ UNCHANGED opVars

\* The scheduler calls Scope::zoom on its scope: a nested scope opens.
SchedZoom ==
    /\ ~aborted
    /\ cpc = "sched"
    /\ ncalls < MaxCalls
    /\ ncalls' = ncalls + 1
    /\ frames' = Append(frames, nextWg)
    /\ nextWg' = nextWg + 1
    /\ nscopes' = nscopes + 1
    /\ UNCHANGED <<queue, pending, poisoned, lockPoisoned, aborted, taskFaulted, quits>>
    /\ UNCHANGED <<cpc, cjob, unwinding, outcome, ended, schedFaulted, ntasks>>
    /\ UNCHANGED <<workerVars, spawnVars, shutdownVars, expandVars>>
    /\ UNCHANGED opVars

\* The scheduler calls Scope::execute (or recurse, which wraps the closure
\* and calls execute): self.wait.submit().
SchedExecSubmit(job) ==
    /\ ~aborted
    /\ cpc = "sched"
    /\ ncalls < MaxCalls
    /\ ncalls' = ncalls + 1
    /\ pending' = WgSubmit(pending, Top)
    /\ cjob' = Task(job, Top, Top, FALSE)
    /\ ntasks' = ntasks + 1
    /\ cpc' = "push"
    /\ UNCHANGED <<queue, poisoned, lockPoisoned, nextWg, aborted, taskFaulted, quits>>
    /\ UNCHANGED <<frames, unwinding, outcome, ended, schedFaulted, nscopes>>
    /\ UNCHANGED <<workerVars, spawnVars, shutdownVars, expandVars>>
    /\ submits' = Count(submits, Top)
    /\ UNCHANGED <<completes, poisons>>

\* Scope::execute pushes the Task message and returns to the scheduler.
SchedExecPush ==
    /\ ~aborted
    /\ cpc = "push"
    /\ queue' = Push(queue, cjob)
    /\ cjob' = NoTask
    /\ cpc' = "sched"
    /\ UNCHANGED <<wgVars, aborted, taskFaulted, quits>>
    /\ UNCHANGED <<frames, unwinding, outcome, ended, schedFaulted, ntasks, nscopes>>
    /\ UNCHANGED <<workerVars, spawnVars, shutdownVars, expandVars>>
    /\ UNCHANGED ncalls
    /\ UNCHANGED opVars

\* The scheduler function returns: the deferred scope.join() runs.
SchedReturn ==
    /\ ~aborted
    /\ cpc = "sched"
    /\ cpc' = "join"
    /\ unwinding' = FALSE
    /\ UNCHANGED <<queue, wgVars, aborted, taskFaulted, quits>>
    /\ UNCHANGED <<frames, cjob, outcome, ended, schedFaulted, ntasks, nscopes>>
    /\ UNCHANGED <<workerVars, spawnVars, shutdownVars, expandVars>>
    /\ UNCHANGED ncalls
    /\ UNCHANGED opVars

\* The scheduler function faults: unwinding runs the deferred scope.join().
SchedFault ==
    /\ ~aborted
    /\ cpc = "sched"
    /\ cpc' = "join"
    /\ unwinding' = TRUE
    /\ schedFaulted' = schedFaulted \cup {Top}
    /\ UNCHANGED <<queue, wgVars, aborted, taskFaulted, quits>>
    /\ UNCHANGED <<frames, cjob, outcome, ended, ntasks, nscopes>>
    /\ UNCHANGED <<workerVars, spawnVars, shutdownVars, expandVars>>
    /\ UNCHANGED ncalls
    /\ UNCHANGED opVars

\* How a zoom whose join has finished ends: join's fault raised while the
\* scheduler's fault unwinds aborts the process; otherwise either fault is
\* the zoom's fault, and without one the zoom returns.
ZoomEnd(wg, unw) ==
    IF unw /\ JoinFaults(wg) THEN "abort"
    ELSE IF unw \/ JoinFaults(wg) THEN "fault"
    ELSE "return"

\* The deferred scope.join() of the innermost zoom finishes, and with it the
\* zoom: control goes back to the enclosing scheduler, or to the caller of
\* Pool::scoped.
ScopeJoin ==
    /\ ~aborted
    /\ cpc = "join"
    /\ JoinReady(Top)
    /\ LET wg == Top
           end == ZoomEnd(wg, unwinding)
       IN  /\ ended' = [ended EXCEPT ![wg] = end]
           /\ aborted' = (end = "abort")
           /\ lockPoisoned' = IF ~unwinding /\ JoinFaults(wg)
                                 THEN [lockPoisoned EXCEPT ![wg] = TRUE]
                                 ELSE lockPoisoned
           /\ frames' = Front(frames)
           /\ IF end = "abort" \/ Len(frames) = 1
                THEN /\ outcome' = end
                     /\ cpc' = "done"
                     /\ UNCHANGED <<unwinding, schedFaulted>>
                ELSE /\ outcome' = outcome
                     /\ cpc' = IF end = "fault" THEN "join" ELSE "sched"
                     /\ unwinding' = (end = "fault")
                     /\ schedFaulted' = IF end = "fault"
                                           THEN schedFaulted \cup {frames[Len(frames) - 1]}
                                           ELSE schedFaulted
    /\ UNCHANGED <<queue, pending, poisoned, nextWg, taskFaulted, quits>>
    /\ UNCHANGED <<cjob, ntasks, nscopes>>
    /\ UNCHANGED <<workerVars, spawnVars, shutdownVars, expandVars>>
    /\ UNCHANGED ncalls
    /\ UNCHANGED opVars

\* ------------------------------------------------------- specification
Next ==
    \/ Expand
    \/ ExpandSpawn
    \/ \E job \in SpawnJobs : SpawnExecute(job)
    \/ SpawnPush
    \/ SpawnReturn
    \/ ShutdownPush
    \/ ShutdownJoin
    \/ \E w \in Workers : WorkerPop(w)
    \/ \E w \in Workers : WorkerRepush(w)
    \/ \E w \in Workers : WorkerExit(w)
    \/ \E w \in Workers : TaskReturn(w)
    \/ \E w \in Workers : TaskFault(w)
    \/ \E w \in Workers : ThreadRestart(w)
    \/ \E w \in Workers : ThreadSpawn(w)
    \/ \E w \in Workers : ThreadPoison(w)
    \/ \E w \in Workers : TaskExecute(w)
    \/ \E w \in Workers : TaskExecPush(w)
    \/ \E w \in Workers : TaskZoom(w)
    \/ \E w \in Workers : TaskZoomPush(w)
    \/ \E w \in Workers : TaskZoomJoin(w)
    \/ ScopedCall
    \/ SchedZoom
    \/ \E job \in ScopedJobs : SchedExecSubmit(job)
    \/ SchedExecPush
    \/ SchedReturn
    \/ SchedFault
    \/ ScopeJoin

Spec == Init /\ [][Next]_vars

\* The pool without a scoped call, with spawned jobs that all terminate: the
\* setting of an orderly shutdown. Threads are scheduled fairly: a worker
\* that can take a step takes one, and so does the thread inside shutdown.
TerminatingJobs == {"ok", "panic"}

QuitWorkerNext ==
    \E w \in Workers :
        \/ WorkerPop(w)
        \/ WorkerRepush(w)
        \/ WorkerExit(w)
        \/ TaskReturn(w)
        \/ TaskFault(w)
        \/ ThreadRestart(w)
        \/ ThreadSpawn(w)
        \/ ThreadPoison(w)

QuitNext ==
    \/ Expand
    \/ ExpandSpawn
    \/ \E job \in TerminatingJobs : SpawnExecute(job)
    \/ SpawnPush
    \/ SpawnReturn
    \/ ShutdownPush
    \/ ShutdownJoin
    \/ QuitWorkerNext

QuitSpec ==
    /\ Init /\ [][QuitNext]_vars
    /\ WF_vars(QuitWorkerNext) /\ WF_vars(ShutdownJoin) /\ WF_vars(ExpandSpawn)

\* The pool used through a scoped call only, without shutdown, with tasks
\* that all return or fault and never wait on the pool (they return, fault
\* or recurse). Threads are scheduled fairly: a worker that can take a step
\* takes one, and the calling thread goes on running: its execute pushes,
\* its scheduler functions end, and a join that can finish does.
LiveJobs == {"ok", "panic", "rec", "recp"}

LiveWorkerNext ==
    \E w \in Workers :
        \/ WorkerPop(w)
        \/ TaskReturn(w)
        \/ TaskFault(w)
        \/ ThreadRestart(w)
        \/ ThreadSpawn(w)
        \/ ThreadPoison(w)
        \/ TaskExecute(w)
        \/ TaskExecPush(w)

LiveNext ==
    \/ LiveWorkerNext
    \/ ScopedCall
    \/ SchedZoom
    \/ \E job \in LiveJobs : SchedExecSubmit(job)
    \/ SchedExecPush
    \/ SchedReturn
    \/ SchedFault
    \/ ScopeJoin

LiveCallerNext ==
    \/ SchedExecPush
    \/ SchedReturn
    \/ SchedFault
    \/ ScopeJoin

LiveSpec ==
    Init /\ [][LiveNext]_vars /\ WF_vars(LiveWorkerNext) /\ WF_vars(LiveCallerNext)

\* ---------------------------------------------------------------- checks
\* The tasks executed on the scope of WaitGroup wg that have not finished:
\* a Task message still in the queue, or one a worker has popped and whose
\* Sentinel has neither completed nor poisoned yet.
Queued(wg) == {i \in 1..Len(queue) : ~queue[i].quit /\ queue[i].scope = wg}
\* Where a worker that holds a popped task can be: running the job, between
\* the submit and the push of an execute the job makes, or in the join of a
\* zoom the job made.
TaskPcs == {"run", "push", "zpush", "zjoin"}
Running(wg) == {w \in Workers : wpc[w] \in TaskPcs /\ wtask[w].scope = wg}
Outstanding(wg) == Queued(wg) # {} \/ Running(wg) # {}

TypeOK ==
    /\ \A wg \in WaitGroups : pending[wg] \in Nat
    /\ nextWg \in 1..(MaxWG + 1)
    /\ Len(wtask) = Len(wpc) /\ Len(winner) = Len(wpc) /\ Len(wbefore) = Len(wpc)
    /\ outcome \in {"none", "return", "fault", "abort"}
    /\ sdOutcome \in {"none", "return", "fault"}

\* The worker threads never meet a poisoned lock: the pool-wide lock is only
\* poisoned by a shutdown that saw pending = 0, when no thread is left, and a
\* scope's lock only by the join that ends the scope.
WorkersNeverMeetPoisonedLock ==
    /\ lockPoisoned[PoolWait] => Len(wpc) = 0
    /\ \A w \in Workers : wpc[w] # "idle" => ~lockPoisoned[wtask[w].wait]

\* The threads an expand has submitted and not started yet.
Starting ==
    (IF xpc = "spawn" THEN 1 ELSE 0)
    + Cardinality({w \in Workers : wpc[w] = "spawn"})

\* The pool-wide count: every thread holds one submit from its registration
\* (before it starts) to its exit, and a faulting thread holds a second one
\* between the submit of its restart and its poison.
WorkerCount ==
    /\ pending[PoolWait] = Len(wpc) + Starting
    /\ pending[PoolWait] =
         added - quits + Cardinality({w \in Workers : wpc[w] \in {"spawn", "poison"}})

\* C1. Containment on return: once a scoped or zoom call has returned
\* normally, every task executed on its scope has finished, and finished by
\* completing the scope's WaitGroup: none is queued, none is running, none
\* faulted.
Containment ==
    \A wg \in WaitGroups :
        ended[wg] = "return" => ~Outstanding(wg) /\ wg \notin taskFaulted

\* C1 witness: the scoped call returned after its scheduler executed two
\* tasks on its scope.
ContainmentWitness ==
    outcome = "return" /\ nscopes = 1 /\ ntasks >= 2

\* C2. A fault waits for all tasks: once a scoped or zoom call has ended by
\* a fault (also by the abort of a fault raised while unwinding), no task of
\* its scope is queued or running.
FaultWaitsForAllTasks ==
    \A wg \in WaitGroups :
        ended[wg] \in {"fault", "abort"} => ~Outstanding(wg)

\* C2 witness: the scoped call surfaced the fault of one of two sibling tasks.
FaultWaitsWitness ==
    /\ outcome = "fault" /\ nscopes = 1 /\ ntasks >= 2
    /\ taskFaulted # {} /\ schedFaulted = {}

\* C3. Recursion is transitively joined: while a recurse closure that will
\* still execute a child runs, its scope's pending count is positive and the
\* scope has not ended; and while a task executed by a recurse closure is
\* queued or running, the enclosing scoped/zoom call has not ended.
RecursionJoined ==
    /\ \A w \in Workers :
          wpc[w] \in {"run", "push"} /\ wtask[w].job \in {"rec", "recp"} =>
              pending[wtask[w].wait] > 0 /\ ended[wtask[w].scope] = "none"
    /\ \A wg \in WaitGroups : Outstanding(wg) => ended[wg] = "none"

\* C3 witness: the scheduler has returned and its join waits while the child
\* of a recursed task is the only task left of the scope.
RecursionWitness ==
    /\ cpc = "join" /\ frames # <<>>
    /\ Running(Top) = {} /\ Queued(Top) # {}
    /\ \A i \in Queued(Top) : queue[i].child

\* C4 (as claimed). At most one surface: the caller of scoped observes a
\* return or one fault, and a fault exactly when a task of the scope (or of
\* a nested zoom, or of a recursed task) or a scheduler faulted.
AtMostOneSurface ==
    outcome # "none" =>
        /\ outcome \in {"return", "fault"}
        /\ outcome = "fault" <=>
              (taskFaulted \ spawnWgs # {} \/ schedFaulted # {})

\* C5 (as claimed). When the scheduler faults and a task of its scope faults
\* too, the zoom ends with the scheduler's fault: one fault for the caller.
SchedulerFaultPrecedence ==
    \A wg \in WaitGroups :
        wg \in schedFaulted /\ wg \in taskFaulted /\ ended[wg] # "none" =>
            ended[wg] = "fault" /\ ~aborted

\* C6 (as claimed). Worker preservation: when no faulting thread is between
\* the submit of its restart and its poison, workers() is the number of
\* workers added by new and expand minus the number that processed Quit.
WorkerPreservation ==
    (\A w \in Workers : wpc[w] \notin {"spawn", "poison"}) =>
        ~WorkersFaults /\ WorkersValue = added - quits

\* C7. Shutdown safety: when a shutdown call has finished, no worker that
\* was registered before the call is still in its loop; and when it returned
\* normally, every worker that left did so by Quit (none by a fault).
ShutdownSafety ==
    sdpc = "done" =>
        /\ \A w \in Workers : ~wbefore[w]
        /\ sdOutcome = "return" => ~sdLeftByFault

\* C7 witness: shutdown returned normally after two workers exited by Quit.
ShutdownSafetyWitness ==
    sdpc = "done" /\ sdOutcome = "return" /\ quits >= 2

\* C9 (as claimed). A fault in a spawned job is contained: when only spawned
\* jobs faulted, no operation on the pool surfaces a fault.
SpawnFaultContained ==
    (taskFaulted # {} /\ taskFaulted \subseteq spawnWgs /\ schedFaulted = {}) =>
        /\ outcome \notin {"fault", "abort"}
        /\ sdOutcome # "fault"
        /\ ~expandFaulted
        /\ ~WorkersFaults

\* C9 (amended). A fault in a spawned job reaches no scoped call: scoped
\* surfaces a fault only for a task or scheduler of its own scopes. The
\* fault poisons the pool-wide WaitGroup instead: shutdown surfaces a fault
\* only after some task faulted, and expand and workers() only after a
\* shutdown call has faulted.
SpawnFaultSurfacesInShutdown ==
    /\ outcome \in {"fault", "abort"} =>
          (taskFaulted \ spawnWgs # {} \/ schedFaulted # {})
    /\ sdOutcome = "fault" => taskFaulted # {} /\ poisoned[PoolWait]
    /\ (expandFaulted \/ WorkersFaults) => sdOutcome = "fault"

\* C9 witness: only a spawned job has faulted; the scoped call returned and
\* the shutdown call surfaced a fault.
SpawnFaultWitness ==
    /\ taskFaulted # {} /\ taskFaulted \subseteq spawnWgs
    /\ outcome = "return" /\ nscopes >= 1
    /\ sdOutcome = "fault"

\* C10. spawn does not wait: wherever a spawn call has submitted and pushed
\* its job, its return is enabled, whatever the job and the workers do.
SpawnDoesNotWait ==
    spc = "called" => ENABLED SpawnReturn

\* C10 witness: the spawn call is about to return while its job, which never
\* terminates, occupies the pool's only worker.
SpawnDoesNotWaitWitness ==
    /\ spc = "called" /\ Len(wpc) = 1
    /\ wpc[1] = "run" /\ wtask[1].job = "loop" /\ wtask[1].wait = sjob
\* C8. Quit cascade: once shutdown has pushed Quit the call finishes, and it
\* finishes only when every thread has left its loop and the pool-wide count
\* is 0, which workers() returns during a single shutdown call; a shutdown
\* that finds no worker registered can finish at once.
QuitCascade ==
    /\ (sdpc = "join") ~> (sdpc = "done")
    /\ [][(sdpc = "join" /\ sdpc' = "done") =>
             /\ WorkersValue = 0 /\ Len(wpc) = 0
             /\ nshutdown = 1 => ~WorkersFaults]_vars
    /\ [](sdpc = "join" /\ Len(wpc) = 0 /\ Starting = 0 => ENABLED ShutdownJoin)

\* C8 witness: the shutdown call has finished after two workers popped Quit
\* one after the other, and Quit is still in the queue.
QuitCascadeWitness ==
    /\ sdpc = "done" /\ quits >= 2 /\ Len(wpc) = 0
    /\ \E i \in 1..Len(queue) : queue[i].quit

\* C11. Zero-worker pool: on a pool made by Pool::new(0) and never expanded,
\* workers() returns 0; the join of a scoped call whose schedulers executed
\* no task is not blocked, and the call returns when no scheduler faulted.
ZeroWorkerPool ==
    added = 0 =>
        /\ ~WorkersFaults /\ WorkersValue = 0
        /\ (cpc = "join" /\ ntasks = 0) => JoinReady(Top) /\ ENABLED ScopeJoin
        /\ (cpc = "done" /\ ntasks = 0 /\ schedFaulted = {}) => outcome = "return"

\* C11 witness: a scoped call on the pool without workers returned, and its
\* scheduler executed nothing.
ZeroWorkerWitness ==
    /\ added = 0 /\ Len(wpc) = 0
    /\ outcome = "return" /\ nscopes >= 1 /\ ntasks = 0

\* C12. Restart before poison: while a faulted worker is inside
\* ThreadSentinel::drop the pool-wide pending count is positive: it holds the
\* worker's own count before the restart and until the poison, and the
\* replacement's as well from the submit of the restart until the
\* replacement has started; and while any worker that has not faulted is
\* registered (a replacement among them) the count is positive and the join
\* of shutdown cannot finish.
RestartBeforePoison ==
    /\ \A w \in Workers :
          wpc[w] \in {"restart", "spawn", "poison"} => pending[PoolWait] > 0
    /\ \A w \in Workers : wpc[w] = "spawn" => pending[PoolWait] >= 2
    /\ (\E w \in Workers : wpc[w] \notin {"restart", "spawn", "poison"}) =>
          pending[PoolWait] > 0 /\ ~ENABLED ShutdownJoin

\* C12 witness: shutdown is in its join while a faulted worker stands
\* between its restart and its poison and the replacement is in its loop.
RestartBeforePoisonWitness ==
    /\ sdpc = "join" /\ Len(wpc) = 2
    /\ wpc[1] = "poison" /\ wpc[2] \in {"idle", "run"}

\* The Task messages that carry WaitGroup wg and whose Sentinel has not acted
\* yet: in the queue, or popped by a worker that is running the job.
Holding(wg) ==
    Cardinality({i \in 1..Len(queue) : ~queue[i].quit /\ queue[i].wait = wg})
    + Cardinality({w \in Workers : wpc[w] \in TaskPcs /\ wtask[w].wait = wg})

\* The executes on WaitGroup wg that have submitted and not pushed yet: the
\* one of the calling thread (in a scheduler or in spawn), and those of tasks.
Pushing(wg) ==
    (IF (cpc = "push" \/ spc = "push") /\ cjob.wait = wg THEN 1 ELSE 0)
    + Cardinality({w \in Workers : wpc[w] = "push" /\ ScopeClone(wtask[w].wait) = wg})
    + Cardinality({w \in Workers : wpc[w] = "zpush" /\ winner[w] = wg})

\* C13. WaitGroup conservation: for the pool-wide WaitGroup and every
\* scope's, pending is the number of submit calls minus the number of
\* complete and poison calls and is never negative; and every Task message
\* that exists is covered by a submit not yet matched, so neither complete
\* nor poison comes before its submit.
Conservation ==
    \A wg \in WaitGroups :
        /\ pending[wg] = submits[wg] - (completes[wg] + poisons[wg])
        /\ pending[wg] >= 0
        /\ wg # PoolWait => pending[wg] >= Holding(wg)

\* C13 witness: a scope's WaitGroup has drained after two submits, one
\* matched by a complete and one by a poison.
ConservationWitness ==
    \E wg \in WaitGroups \ {PoolWait} :
        /\ submits[wg] = 2 /\ completes[wg] = 1 /\ poisons[wg] = 1
        /\ pending[wg] = 0

\* C14. Poison after drain: every join that finishes (the join of shutdown,
\* the deferred join of a zoom on the calling thread, the join of a zoom made
\* inside a task) finishes in a state where pending is 0, poisoned or not,
\* and it faults exactly when poisoned is set; and no step clears poisoned.
PoisonAfterDrain ==
    /\ [][(sdpc = "join" /\ sdpc' = "done") =>
             /\ pending[PoolWait] = 0
             /\ sdOutcome' = "fault" <=> poisoned[PoolWait]]_vars
    /\ [][(cpc = "join" /\ frames' # frames) =>
             /\ pending[Top] = 0
             /\ (lockPoisoned'[Top] \/ aborted') <=> poisoned[Top]]_vars
    /\ [][\A w \in Workers :
             (Len(wpc') = Len(wpc) /\ wpc[w] = "zjoin" /\ wpc'[w] = "run") =>
                 /\ pending[winner[w]] = 0
                 /\ wtask'[w].job = "panic" <=> poisoned[winner[w]]]_vars
    /\ [][\A wg \in WaitGroups : poisoned[wg] => poisoned'[wg]]_vars

\* C14 witness: a zoom's join has faulted on a WaitGroup that was poisoned
\* by one task and completed by another, and whose scheduler returned.
PoisonAfterDrainWitness ==
    \E wg \in WaitGroups \ {PoolWait} :
        /\ ended[wg] = "fault" /\ wg \notin schedFaulted
        /\ poisons[wg] >= 1 /\ completes[wg] >= 1 /\ pending[wg] = 0

\* Worker w ends the task it runs in this step: its closure returned (the
\* worker is back at the head of its loop) or faulted (the worker unwinds).
TaskEnds(w) ==
    /\ Len(wpc') = Len(wpc)
    /\ wpc[w] = "run" /\ wpc'[w] \in {"idle", "restart"}

\* C15. Task Sentinel exactly-once: the step that ends a popped task makes
\* one call on the task's WaitGroup, complete when the closure returned and
\* poison when it faulted; no other step calls complete or poison on a
\* scope's WaitGroup; and every submitted task is in exactly one place:
\* about to be pushed, queued, running, completed or poisoned.
SentinelExactlyOnce ==
    /\ [][\A w \in Workers : TaskEnds(w) =>
             LET wg == wtask[w].wait IN
             /\ completes'[wg] + poisons'[wg] = completes[wg] + poisons[wg] + 1
             /\ wpc'[w] = "idle" <=> completes'[wg] = completes[wg] + 1
             /\ wpc'[w] = "restart" <=> poisons'[wg] = poisons[wg] + 1]_vars
    /\ [][\A wg \in WaitGroups \ {PoolWait} :
             (completes'[wg] # completes[wg] \/ poisons'[wg] # poisons[wg]) =>
                 \E w \in Workers : TaskEnds(w) /\ wtask[w].wait = wg]_vars
    /\ [](\A wg \in WaitGroups \ {PoolWait} :
             submits[wg] = completes[wg] + poisons[wg] + Holding(wg)
                           + Pushing(wg))

\* C15 witness: a worker is unwinding from a faulted task just after its
\* Sentinel poisoned the scope's WaitGroup, which an earlier task completed.
SentinelWitness ==
    \E w \in Workers : \E wg \in WaitGroups \ {PoolWait} :
        /\ wpc[w] = "restart"
        /\ poisons[wg] = 1 /\ completes[wg] = 1 /\ Holding(wg) = 0

\* The scoped caller waits in its join, a task of its scope is still in the
\* queue, and after a shutdown call every worker has popped Quit and exited.
ShutdownRaceStuck ==
    /\ cpc = "join" /\ frames # <<>>
    /\ nshutdown >= 1 /\ quits >= 1 /\ Len(wpc) = 0
    /\ Queued(Top) # {}

\* C16. Shutdown racing a scope can deadlock: in the state where the workers
\* have all exited by Quit while a task of the joining scope is queued, the
\* scope's pending count is positive and its join cannot finish, and every
\* step leaves the caller there unless it adds a worker thread.
ShutdownRaceDeadlock ==
    /\ [](ShutdownRaceStuck => pending[Top] > 0 /\ ~ENABLED ScopeJoin)
    /\ [][ShutdownRaceStuck => ShutdownRaceStuck' \/ Len(wpc') > 0]_vars

\* C16 witness: shutdown ran while the scoped call was in flight and has
\* returned, the pool's only worker is gone, and the scoped caller is
\* blocked on its queued task.
ShutdownRaceWitness ==
    /\ ShutdownRaceStuck /\ sdpc = "done" /\ sdOutcome = "return"
    /\ added = 1 /\ quits = 1

\* C17 (as claimed). Scope liveness under faults: a scoped call made on a
\* pool with a worker finishes, and so every zoom call nested in it has
\* finished, by returning or by surfacing a fault to its caller, however
\* many tasks fault.
ScopeLivenessAsClaimed ==
    (cpc \in {"sched", "push", "join"} /\ Len(wpc) > 0) ~>
        (cpc = "done" /\ outcome \in {"return", "fault"})

\* What holds instead: the call never blocks. It ends, by a return, by a
\* fault, or by the abort of the process when a scheduler and a task of its
\* scope have both faulted.
ScopeNeverBlocks ==
    (cpc \in {"sched", "push", "join"} /\ Len(wpc) > 0) ~> (cpc = "done")

\* The Quit messages in the queue, and those a worker has popped and not
\* pushed back yet.
QuitsQueued == Cardinality({i \in 1..Len(queue) : queue[i].quit})
QuitsHeld == Cardinality({w \in Workers : wpc[w] = "quit"})

\* C18. Quit is never consumed: the Quit messages queued and held number the
\* shutdown calls made so far, so once shutdown was called a Quit is queued
\* whenever no worker stands between its pop and its re-push; and a worker
\* that leaves by Quit takes one off the pool-wide count without a restart
\* (no submit) and without a poison.
QuitNeverConsumed ==
    /\ [](QuitsQueued + QuitsHeld = nshutdown)
    /\ []((nshutdown >= 1 /\ QuitsHeld = 0) => QuitsQueued >= 1)
    /\ [][quits' = quits + 1 =>
             /\ pending'[PoolWait] = pending[PoolWait] - 1
             /\ Len(wpc') = Len(wpc) - 1
             /\ submits' = submits /\ poisons' = poisons
             /\ poisoned' = poisoned]_vars

\* C18 witness: shutdown has returned; a worker added by expand afterwards
\* has popped the Quit left in the queue, pushed it back, and is about to
\* cancel its ThreadSentinel and exit.
QuitNeverConsumedWitness ==
    /\ sdpc = "done" /\ sdOutcome = "return" /\ quits >= 1
    /\ Len(wpc) = 1 /\ wpc[1] = "cancel" /\ ~wbefore[1]
    /\ QuitsQueued = 1

\* The Task messages pushed before the first Quit: those still in the queue,
\* and the workers that run one.
EarlyQueued == {i \in 1..Len(queue) : ~queue[i].quit /\ queue[i].early}
EarlyRunning == {w \in Workers : wpc[w] \in TaskPcs /\ wtask[w].early}
\* Some worker has popped Quit.
QuitPopped == quits > 0 \/ \E w \in Workers : wpc[w] \in {"quit", "cancel"}

\* C19. Shutdown drains earlier tasks: once any worker has popped Quit, and
\* so when the last worker exits, no Task message pushed before the first
\* Quit is in the queue: each was popped first; and when a shutdown call
\* finishes after a worker popped Quit (which every call made on a pool with
\* a worker does), none of them is queued or running: each has reached its
\* complete or poison.
ShutdownDrains ==
    /\ [](QuitPopped => EarlyQueued = {})
    /\ [][(sdpc = "join" /\ sdpc' = "done" /\ QuitPopped) =>
             EarlyQueued = {} /\ EarlyRunning = {}]_vars
    /\ []((sdpc = "join" /\ EarlyRunning # {}) => ~ENABLED ShutdownJoin)

\* C19 witness: shutdown waits in its join with Quit queued while the pool's
\* worker runs the second of two tasks that were pushed before the Quit.
ShutdownDrainsWitness ==
    /\ sdpc = "join" /\ nshutdown = 1 /\ queue = <<Quit>>
    /\ Len(wpc) = 1 /\ wpc[1] = "run" /\ wtask[1].early
    /\ \E wg \in spawnWgs : completes[wg] + poisons[wg] = 1

\* A worker of a pool that was only ever given one thread waits in the join
\* of a zoom that its task opened.
ZoomBlocksOnlyWorker == added = 1 /\ \E w \in Workers : wpc[w] = "zjoin"

\* C20. Nested zoom inside a task can starve the pool: on a pool of one
\* worker, while the worker waits in the join of a zoom made by its task,
\* the inner scope's count is positive, that join cannot finish, no thread
\* is left to pop the inner task, and the scope of the outer task (the
\* scoped call with it) has not ended; and every step leaves the worker in
\* that join unless a thread is added to the pool.
NestedZoomStarves ==
    /\ [](ZoomBlocksOnlyWorker =>
            /\ \A w \in Workers : wpc[w] = "zjoin" =>
                  /\ pending[winner[w]] > 0 /\ Queued(winner[w]) # {}
                  /\ ~ENABLED TaskZoomJoin(w)
                  /\ ended[wtask[w].scope] = "none"
            /\ \A w \in Workers : wpc[w] # "idle"
            /\ outcome = "none")
    /\ [][ZoomBlocksOnlyWorker =>
             \/ added' > 1
             \/ \E w \in 1..Len(wpc') : wpc'[w] = "zjoin"]_vars

\* C20 witness: Pool::new(1).scoped(|s| s.recurse(|s2| s2.zoom(|s3|
\* s3.execute(job)))): the scheduler has returned and waits in its join, the
\* only worker waits in the inner join, and the inner task is in the queue.
NestedZoomWitness ==
    /\ added = 1 /\ Len(wpc) = 1 /\ wpc[1] = "zjoin"
    /\ cpc = "join" /\ frames = <<wtask[1].scope>>
    /\ Queued(winner[1]) # {}
====
